---- MODULE Spec2Model ----
(***************************************************************************)
(* Two command-line programs of the repository:                            *)
(*   random-scripts/git_commit_analyzer/git_commit_analyzer.py             *)
(*   random-scripts/color_palette_extractor.py                             *)
(*                                                                         *)
(* Text is modelled as a sequence of tokens.  The separator characters of  *)
(* the parsers ("|", tab, newline, "(", ")", ":") are tokens of their own; *)
(* every other token stands for a non-empty run of characters that holds   *)
(* none of them.  Python floats are modelled as exact rationals            *)
(* [num, den]; where a float comparison can differ from the exact one (a   *)
(* hue that is exactly on a boundary) the rounding direction is a          *)
(* nondeterministic input.                                                 *)
(***************************************************************************)
EXTENDS Integers, Sequences, FiniteSets, TLC

VARIABLES
    \* ---- commit analyzer: command line and environment
    repo_has_git,   \* (repo_path / '.git').exists()
    git_fails,      \* subprocess.run raises CalledProcessError
    days,           \* args.days
    author,         \* args.author, <<>> for None
    export,         \* args.export, <<>> for None
    gitlog,         \* what `git log` has to say: the log's entries, in order
    \* ---- commit analyzer: program state
    pc,             \* position in main()
    cmd,            \* the command fetch_commits built
    commits,        \* GitCommitAnalyzer.commits
    stdout,         \* what was printed, in order
    json_file,      \* <<>> or <<data>>: the file export_json wrote
    exit_code,      \* <<>> while running, <<n>> once the process ended
    raised,         \* <<>> or <<exception name>>: the uncaught exception
    returned,       \* what the methods called on the analyzer object gave, in call order
    \* ---- palette extractor: command line and environment
    argv,           \* sys.argv[1:]
    image,          \* <<>> for an unreadable file, else <<pixels after resize>>
    fp_s_below,     \* float rounding: a saturation of exactly 1/10 computes below 0.1
    fp_h_below,     \* float rounding: a hue exactly on a boundary computes below it
    \* ---- palette extractor: program state
    ppc,            \* position in main()
    colors,         \* the list get_dominant_colors returned
    pstdout,        \* what was printed, in order
    palette_html,   \* <<>> or <<hex codes of the swatches written>>
    pexit_code      \* <<>> while running, <<n>> once the process ended

avars == <<repo_has_git, git_fails, days, author, export, gitlog,
           pc, cmd, commits, stdout, json_file, exit_code, raised, returned>>
pvars == <<argv, image, fp_s_below, fp_h_below, ppc, colors, pstdout, palette_html, pexit_code>>
vars == <<avars, pvars>>

----------------------------------------------------------------------------
(* Bounds of the model *)

MaxLines == 4        \* lines of a log in the parsing family
MaxMsgLen == 5       \* tokens of a message in the message family
MaxCommits == 3      \* commits of a log in the aggregate families
MaxPixels == 4       \* sampled pixels of an image
MaxChannel == 10     \* low channel values 0..MaxChannel of the colour family
MaxCalls == 3        \* method calls on one analyzer object

----------------------------------------------------------------------------
(* Generic helpers *)

PIPE == "|"
TAB == "\t"
NL == "\n"

Min(a, b) == IF a <= b THEN a ELSE b
Max(a, b) == IF a >= b THEN a ELSE b

RECURSIVE SumSeq(_)
SumSeq(s) == IF s = <<>> THEN 0 ELSE Head(s) + SumSeq(Tail(s))

RECURSIVE Concat(_)
Concat(ss) == IF ss = <<>> THEN <<>> ELSE Head(ss) \o Concat(Tail(ss))

IndexOf(s, x) == CHOOSE i \in 1..Len(s) : s[i] = x /\ \A j \in 1..(i-1) : s[j] # x

\* str.split(sep): the pieces between the separators, one more than separators
RECURSIVE Split(_, _)
Split(s, sep) ==
    IF \A i \in 1..Len(s) : s[i] # sep
    THEN <<s>>
    ELSE LET i == IndexOf(s, sep)
         IN  <<SubSeq(s, 1, i - 1)>> \o Split(SubSeq(s, i + 1, Len(s)), sep)

\* sep.join(pieces)
RECURSIVE Join(_, _)
Join(pieces, sep) ==
    IF pieces = <<>> THEN <<>>
    ELSE IF Len(pieces) = 1 THEN pieces[1]
    ELSE pieces[1] \o <<sep>> \o Join(Tail(pieces), sep)

\* bool(line.strip()): some character of the line is not white space
Whitespace == {" ", TAB}
StripTruthy(line) == \E i \in 1..Len(line) : line[i] \notin Whitespace

\* Rationals for Python's float results: den > 0
Rat(n, d) == IF d < 0 THEN [num |-> -n, den |-> -d] ELSE [num |-> n, den |-> d]
RInt(n) == [num |-> n, den |-> 1]
RAdd(a, b) == [num |-> a.num * b.den + b.num * a.den, den |-> a.den * b.den]
RMul(a, b) == [num |-> a.num * b.num, den |-> a.den * b.den]
RLe(a, b) == a.num * b.den <= b.num * a.den
RLt(a, b) == a.num * b.den < b.num * a.den
REq(a, b) == a.num * b.den = b.num * a.den
RMin(a, b) == IF RLe(a, b) THEN a ELSE b

----------------------------------------------------------------------------
(* Commit analyzer: the text `git log --pretty=format:%H|%an|%ai|%s --numstat` *)
(* prints.  An entry of gitlog is a commit header, a numstat line of the   *)
(* commit above it, or a raw line (text that is no numstat line).          *)

IsoDates == {"2024-01-02 10:00:00 +0100", "2024-01-03 23:30:00 +0100"}

\* %H|%an|%ai|%s
PrettyFormat(e) == <<e.H, PIPE>> \o e.an \o <<PIPE, e.ai, PIPE>> \o e.s

\* --numstat: added TAB deleted TAB path
NumstatLine(e) == <<e.added, TAB, e.deleted, TAB>> \o e.path

EntryLine(e) ==
    CASE e.kind = "commit" -> PrettyFormat(e)
      [] e.kind = "stat"   -> NumstatLine(e)
      [] OTHER             -> e.text

\* stdout of the git process: the lines joined by newlines, an empty line
\* before every commit header but the first
GitLogLines(log) ==
    Concat([i \in 1..Len(log) |->
               IF log[i].kind = "commit" /\ i > 1
               THEN <<<<>>, EntryLine(log[i])>>
               ELSE <<EntryLine(log[i])>>])

GitLogStdout(log) == Join(GitLogLines(log), NL)

\* run_git_command: stdout of the command, or "" after printing the error
run_git_command(fails, log) == IF fails THEN <<>> ELSE GitLogStdout(log)

\* the command line fetch_commits builds
GitCommand(d, a) ==
    <<"git", "log", "--since", "--pretty=format:%H|%an|%ai|%s", "--numstat">>
    \o (IF a # <<>> THEN <<"--author">> ELSE <<>>)

----------------------------------------------------------------------------
(* fetch_commits *)

\* datetime.fromisoformat(date.replace(' +', '+')): the fields the analysis reads;
\* ymd is strftime('%Y-%m-%d') as the number yyyymmdd, which sorts as the text does
ParsedDate(tok) ==
    IF tok = "2024-01-02 10:00:00 +0100"
    THEN [hour |-> 10, weekday |-> "Tuesday", ymd |-> 20240102]
    ELSE [hour |-> 23, weekday |-> "Wednesday", ymd |-> 20240103]

IsIsoDate(piece) == Len(piece) = 1 /\ piece[1] \in IsoDates

\* int(): the decimal strings of the model and their values
IntLiterals == {"0", "1", "2", "3", "5", "10"}
IntValue(tok) ==
    CASE tok = "0" -> 0 [] tok = "1" -> 1 [] tok = "2" -> 2 [] tok = "3" -> 3
      [] tok = "5" -> 5 [] tok = "10" -> 10

\* int(x) raises ValueError
IntRaises(piece) == ~(Len(piece) = 1 /\ piece[1] \in IntLiterals)

\* int(x) if x != '-' else 0
StatValue(piece) == IF piece = <<"-">> THEN 0 ELSE IntValue(piece[1])
StatRaises(piece) == piece # <<"-">> /\ IntRaises(piece)

\* '|' in line and len(line.split('|')) == 4
IsCommitLine(line) ==
    /\ \E i \in 1..Len(line) : line[i] = PIPE
    /\ Len(Split(line, PIPE)) = 4

NewCommit(line) ==
    LET p == Split(line, PIPE)
    IN  [hash |-> p[1], author |-> p[2], date |-> ParsedDate(p[3][1]),
         message |-> p[4], files |-> <<>>, additions |-> 0, deletions |-> 0]

\* the body of the elif branch: the commit after one file-stat line
AddFileStat(commit, line) ==
    LET parts == Split(line, TAB)
    IN  IF Len(parts) # 3 THEN commit
        ELSE IF StatRaises(parts[1]) \/ StatRaises(parts[2]) THEN commit
        ELSE LET add == StatValue(parts[1])
                 delete == StatValue(parts[2])
             IN  [commit EXCEPT
                    !.additions = @ + add,
                    !.deletions = @ + delete,
                    !.files = Append(@, [name |-> parts[3], additions |-> add,
                                         deletions |-> delete])]

\* the loop over output.split('\n'); current is <<>> for None.
\* The result: the commits appended to self.commits and the exception that
\* ended the loop (the commit being read is not appended then).
RECURSIVE FetchLoop(_, _, _)
FetchLoop(lines, acc, current) ==
    IF lines = <<>>
    THEN [commits |-> acc \o current, raised |-> <<>>]
    ELSE LET line == Head(lines)
         IN  IF IsCommitLine(line)
             THEN IF ~IsIsoDate(Split(line, PIPE)[3])
                  THEN [commits |-> acc, raised |-> <<"ValueError">>]
                  ELSE FetchLoop(Tail(lines), acc \o current, <<NewCommit(line)>>)
             ELSE IF StripTruthy(line) /\ current # <<>>
                  THEN FetchLoop(Tail(lines), acc, <<AddFileStat(current[1], line)>>)
                  ELSE FetchLoop(Tail(lines), acc, current)

fetch_commits(fails, log) ==
    FetchLoop(Split(run_git_command(fails, log), NL), <<>>, <<>>)

----------------------------------------------------------------------------
(* collections.Counter and dict: a sequence of [key, count] in insertion order *)

RECURSIVE FirstSeen(_)
FirstSeen(s) ==
    IF s = <<>> THEN <<>>
    ELSE LET r == FirstSeen(SubSeq(s, 1, Len(s) - 1))
             x == s[Len(s)]
         IN  IF \E i \in 1..Len(r) : r[i] = x THEN r ELSE Append(r, x)

CountOf(s, x) == Cardinality({i \in 1..Len(s) : s[i] = x})

\* Counter(s), also a defaultdict(int) incremented once per element of s
Counter(s) ==
    LET keys == FirstSeen(s)
    IN  [i \in 1..Len(keys) |-> [key |-> keys[i], count |-> CountOf(s, keys[i])]]

RemoveAt(s, i) == SubSeq(s, 1, i - 1) \o SubSeq(s, i + 1, Len(s))

\* the first entry with the largest count: max(items, key=count)
FirstMax(c) ==
    CHOOSE i \in 1..Len(c) :
        /\ \A j \in 1..Len(c) : c[j].count <= c[i].count
        /\ \A j \in 1..(i - 1) : c[j].count < c[i].count

\* sorted(items, key=count, reverse=True): stable
RECURSIVE SortByCountDesc(_)
SortByCountDesc(c) ==
    IF c = <<>> THEN <<>>
    ELSE LET i == FirstMax(c) IN <<c[i]>> \o SortByCountDesc(RemoveAt(c, i))

\* Counter.most_common(n) through heapq.nlargest: nothing for n <= 0
most_common(c, n) ==
    IF n <= 0 THEN <<>> ELSE SubSeq(SortByCountDesc(c), 1, Min(n, Len(c)))

\* sorted(items) of a dict with integer keys
RECURSIVE SortByKey(_)
SortByKey(c) ==
    IF c = <<>> THEN <<>>
    ELSE LET i == CHOOSE i \in 1..Len(c) : \A j \in 1..Len(c) : c[i].key <= c[j].key
         IN  <<c[i]>> \o SortByKey(RemoveAt(c, i))

----------------------------------------------------------------------------
(* analyze_commit_frequency *)

analyze_commit_frequency(cs) ==
    [by_hour |-> SortByKey(Counter([i \in 1..Len(cs) |-> cs[i].date.hour])),
     by_day  |-> Counter([i \in 1..Len(cs) |-> cs[i].date.weekday]),
     by_date |-> SortByKey(Counter([i \in 1..Len(cs) |-> cs[i].date.ymd]))]

----------------------------------------------------------------------------
(* analyze_commit_messages *)

CommitTypes == {"feat", "fix", "docs", "style", "refactor", "test", "chore"}

\* len() of the text a token stands for
CharLen(tok) ==
    CASE tok = "feat" -> 4 [] tok = "fix" -> 3 [] tok = "docs" -> 4
      [] tok = "style" -> 5 [] tok = "refactor" -> 8 [] tok = "test" -> 4
      [] tok = "chore" -> 5 [] tok = "Feat" -> 4 [] OTHER -> 1

MessageLength(msg) == SumSeq([i \in 1..Len(msg) |-> CharLen(msg[i])])

\* re.match(r'^(feat|fix|docs|style|refactor|test|chore)(\(.+\))?:', msg)
\* the group (\(.+\)) taken: "(" , one or more characters, ")" and then ":"
ScopeMatches(msg) ==
    /\ Len(msg) >= 2 /\ msg[2] = "("
    /\ \E k \in 4..Len(msg) : msg[k] = ")" /\ k + 1 <= Len(msg) /\ msg[k + 1] = ":"
\* the group skipped: ":" right after the type
NoScopeMatches(msg) == Len(msg) >= 2 /\ msg[2] = ":"

\* the pattern without its optional scope group
ReMatchNoScope(msg) ==
    /\ msg # <<>>
    /\ msg[1] \in CommitTypes
    /\ NoScopeMatches(msg)

ReMatch(msg) ==
    /\ msg # <<>>
    /\ msg[1] \in CommitTypes
    /\ (ScopeMatches(msg) \/ NoScopeMatches(msg))

analyze_commit_messages(cs) ==
    LET matched == {i \in 1..Len(cs) : ReMatch(cs[i].message)}
        conventional_commits == Cardinality(matched)
        lengths == [i \in 1..Len(cs) |-> MessageLength(cs[i].message)]
    IN  [total_commits |-> Len(cs),
         avg_message_length |->
            IF lengths # <<>> THEN Rat(SumSeq(lengths), Len(lengths)) ELSE RInt(0),
         conventional_commits |-> conventional_commits,
         conventional_percentage |->
            IF cs # <<>> THEN Rat(conventional_commits * 100, Len(cs)) ELSE RInt(0),
         commit_types |->
            [t \in CommitTypes |->
                Cardinality({i \in matched : cs[i].message[1] = t})]]

----------------------------------------------------------------------------
(* analyze_file_changes *)

ExtTokens == {".py", ".png"}

\* Path(filename).suffix: the extension of a name that has one, else ''
Suffix(name) ==
    IF Len(name) >= 2 /\ name[Len(name)] \in ExtTokens THEN name[Len(name)] ELSE ""

\* the names of the files of all commits, in the order the loops visit them
AllFileNames(cs) ==
    Concat([i \in 1..Len(cs) |->
               [j \in 1..Len(cs[i].files) |-> cs[i].files[j].name]])

\* the averages taken over the files instead of the commits
FileChangesPerFile(cs) ==
    LET total_additions == SumSeq([i \in 1..Len(cs) |-> cs[i].additions])
        total_deletions == SumSeq([i \in 1..Len(cs) |-> cs[i].deletions])
        names == AllFileNames(cs)
    IN  [total_additions |-> total_additions,
         total_deletions |-> total_deletions,
         net_lines |-> total_additions - total_deletions,
         avg_additions_per_commit |->
            IF names # <<>> THEN Rat(total_additions, Len(names)) ELSE RInt(0),
         avg_deletions_per_commit |->
            IF names # <<>> THEN Rat(total_deletions, Len(names)) ELSE RInt(0),
         file_extensions |-> <<>>,
         most_changed_files |-> most_common(Counter(names), 10)]

analyze_file_changes(cs) ==
    LET total_additions == SumSeq([i \in 1..Len(cs) |-> cs[i].additions])
        total_deletions == SumSeq([i \in 1..Len(cs) |-> cs[i].deletions])
        names == AllFileNames(cs)
        exts == SelectSeq([i \in 1..Len(names) |-> Suffix(names[i])],
                          LAMBDA e : e # "")
    IN  [total_additions |-> total_additions,
         total_deletions |-> total_deletions,
         net_lines |-> total_additions - total_deletions,
         avg_additions_per_commit |->
            IF cs # <<>> THEN Rat(total_additions, Len(cs)) ELSE RInt(0),
         avg_deletions_per_commit |->
            IF cs # <<>> THEN Rat(total_deletions, Len(cs)) ELSE RInt(0),
         file_extensions |-> most_common(Counter(exts), 10),
         most_changed_files |-> most_common(Counter(names), 10)]

----------------------------------------------------------------------------
(* analyze_authors *)

AuthorStats(cs, a) ==
    LET mine == SelectSeq(cs, LAMBDA c : c.author = a)
    IN  [author |-> a,
         commits |-> Len(mine),
         additions |-> SumSeq([i \in 1..Len(mine) |-> mine[i].additions]),
         deletions |-> SumSeq([i \in 1..Len(mine) |-> mine[i].deletions])]

analyze_authors(cs) ==
    LET authors == Counter([i \in 1..Len(cs) |-> cs[i].author])
    IN  [total_authors |-> Len(authors),
         author_commits |-> SortByCountDesc(authors),
         author_stats |->
            [i \in 1..Len(authors) |-> AuthorStats(cs, authors[i].key)]]

----------------------------------------------------------------------------
(* get_productivity_score *)

\* round(x, 2), in hundredths: the nearest, the even one of two equally near
Round2(x) ==
    LET n == 100 * x.num
        q == n \div x.den
        r == n % x.den
        k == IF 2 * r < x.den THEN q
             ELSE IF 2 * r > x.den THEN q + 1
             ELSE IF q % 2 = 0 THEN q ELSE q + 1
    IN  Rat(k, 100)

\* the score without its guard for no commits
ScoreUnguarded(cs, d) ==
    IF d = 0 THEN [raised |-> <<"ZeroDivisionError">>, value |-> RInt(0)]
    ELSE LET commit_score == RMin(Rat(Len(cs) * 10, d), RInt(40))
             message_score ==
                RMul(analyze_commit_messages(cs).conventional_percentage, Rat(3, 10))
             change_score ==
                RMin(RMul(analyze_file_changes(cs).avg_additions_per_commit, Rat(1, 10)),
                     RInt(30))
         IN  [raised |-> <<>>,
              value |-> Round2(RAdd(RAdd(commit_score, message_score), change_score))]

\* The value returned, or the exception raised: len(commits) / days divides by
\* args.days as given.
get_productivity_score(cs, d) ==
    IF cs = <<>> THEN [raised |-> <<>>, value |-> RInt(0)]
    ELSE IF d = 0 THEN [raised |-> <<"ZeroDivisionError">>, value |-> RInt(0)]
    ELSE LET commit_score == RMin(Rat(Len(cs) * 10, d), RInt(40))
             msg_analysis == analyze_commit_messages(cs)
             message_score == RMul(msg_analysis.conventional_percentage, Rat(3, 10))
             file_analysis == analyze_file_changes(cs)
             change_score ==
                RMin(RMul(file_analysis.avg_additions_per_commit, Rat(1, 10)), RInt(30))
         IN  [raised |-> <<>>,
              value |-> Round2(RAdd(RAdd(commit_score, message_score), change_score))]

----------------------------------------------------------------------------
(* generate_report and export_json *)

NoCommitsMessage == "No commits found in the specified time range."

FirstN(s, n) == SubSeq(s, 1, Min(n, Len(s)))

\* The values the report text is formatted from, or the message for no commits.
\* raised: the exception get_productivity_score let through.
generate_report(cs, d) ==
    IF cs = <<>>
    THEN [raised |-> <<>>, text |-> NoCommitsMessage]
    ELSE LET frequency == analyze_commit_frequency(cs)
             messages == analyze_commit_messages(cs)
             files == analyze_file_changes(cs)
             authors == analyze_authors(cs)
             productivity == get_productivity_score(cs, d)
         IN  IF productivity.raised # <<>>
             THEN [raised |-> productivity.raised, text |-> ""]
             ELSE [raised |-> <<>>,
                   text |-> "GIT COMMIT ANALYSIS REPORT",
                   days |-> d,
                   total_commits |-> messages.total_commits,
                   productivity |-> productivity.value,
                   total_authors |-> authors.total_authors,
                   top_authors |->
                      [i \in 1..Min(5, Len(authors.author_commits)) |->
                          LET a == authors.author_commits[i].key
                              k == CHOOSE k \in 1..Len(authors.author_stats) :
                                       authors.author_stats[k].author = a
                          IN  [author |-> a,
                               count |-> authors.author_commits[i].count,
                               additions |-> authors.author_stats[k].additions,
                               deletions |-> authors.author_stats[k].deletions]],
                   most_productive_hour |-> frequency.by_hour[FirstMax(frequency.by_hour)],
                   most_productive_day |-> frequency.by_day[FirstMax(frequency.by_day)],
                   avg_message_length |-> messages.avg_message_length,
                   conventional_commits |-> messages.conventional_commits,
                   conventional_percentage |-> messages.conventional_percentage,
                   commit_types |->
                      [t \in {u \in CommitTypes : messages.commit_types[u] > 0} |->
                          messages.commit_types[t]],
                   total_additions |-> files.total_additions,
                   total_deletions |-> files.total_deletions,
                   net_lines |-> files.net_lines,
                   avg_additions_per_commit |-> files.avg_additions_per_commit,
                   avg_deletions_per_commit |-> files.avg_deletions_per_commit,
                   top_file_types |-> FirstN(files.file_extensions, 5),
                   most_changed_files |-> FirstN(files.most_changed_files, 5)]

\* The dictionary export_json dumps, or the exception raised while building it.
export_json(cs, d, a) ==
    LET productivity == get_productivity_score(cs, d)
    IN  IF productivity.raised # <<>>
        THEN [raised |-> productivity.raised]
        ELSE [raised |-> <<>>,
              metadata |-> [days_analyzed |-> d, author_filter |-> a],
              frequency |-> analyze_commit_frequency(cs),
              messages |-> analyze_commit_messages(cs),
              files |-> analyze_file_changes(cs),
              authors |-> analyze_authors(cs),
              productivity_score |-> productivity.value]

----------------------------------------------------------------------------
(* main of the commit analyzer *)

AFrame ==
    UNCHANGED <<repo_has_git, git_fails, days, author, export, gitlog, returned, pvars>>

\* lines 366-369: the path holds no .git
MainNotRepository ==
    /\ pc = "main"
    /\ ~repo_has_git
    /\ stdout' = Append(stdout, [text |-> "Error: not a Git repository"])
    /\ exit_code' = <<1>>
    /\ pc' = "exit"
    /\ UNCHANGED <<cmd, commits, json_file, raised>>
    /\ AFrame

\* lines 371-378: the banner, the analyzer object
MainStart ==
    /\ pc = "main"
    /\ repo_has_git
    /\ stdout' = stdout \o <<[text |-> "Analyzing Git repository"],
                           [text |-> "Looking at the last days"]>>
    /\ commits' = <<>>
    /\ pc' = "fetch"
    /\ UNCHANGED <<cmd, json_file, exit_code, raised>>
    /\ AFrame

\* line 380: analyzer.fetch_commits() returns
FetchCommits ==
    /\ pc = "fetch"
    /\ LET r == fetch_commits(git_fails, gitlog)
       IN  /\ r.raised = <<>>
           /\ commits' = commits \o r.commits
    /\ cmd' = GitCommand(days, author)
    /\ stdout' = IF git_fails THEN Append(stdout, [text |-> "Error running git command"])
                 ELSE stdout
    /\ pc' = "report"
    /\ UNCHANGED <<json_file, exit_code, raised>>
    /\ AFrame

\* line 380: analyzer.fetch_commits() raises (line 77), the traceback ends the run
FetchCommitsRaises ==
    /\ pc = "fetch"
    /\ LET r == fetch_commits(git_fails, gitlog)
       IN  /\ r.raised # <<>>
           /\ commits' = commits \o r.commits
           /\ raised' = r.raised
    /\ cmd' = GitCommand(days, author)
    /\ stdout' = Append(stdout, [text |-> "Traceback"])
    /\ exit_code' = <<1>>
    /\ pc' = "exit"
    /\ UNCHANGED <<json_file>>
    /\ AFrame

\* lines 383-384: the report is generated and printed
PrintReport ==
    /\ pc = "report"
    /\ LET r == generate_report(commits, days)
       IN  /\ r.raised = <<>>
           /\ stdout' = Append(stdout, r)
    /\ IF export # <<>>
       THEN pc' = "export" /\ UNCHANGED exit_code
       ELSE pc' = "exit" /\ exit_code' = <<0>>
    /\ UNCHANGED <<cmd, commits, json_file, raised>>
    /\ AFrame

\* line 383: generate_report raises, the traceback ends the run
PrintReportRaises ==
    /\ pc = "report"
    /\ LET r == generate_report(commits, days)
       IN  /\ r.raised # <<>>
           /\ raised' = r.raised
    /\ stdout' = Append(stdout, [text |-> "Traceback"])
    /\ exit_code' = <<1>>
    /\ pc' = "exit"
    /\ UNCHANGED <<cmd, commits, json_file>>
    /\ AFrame

\* lines 387-388: export_json writes the file, or raises before opening it
ExportJson ==
    /\ pc = "export"
    /\ LET data == export_json(commits, days, author)
       IN  IF data.raised = <<>>
           THEN /\ json_file' = <<data>>
                /\ stdout' = Append(stdout, [text |-> "Analysis exported"])
                /\ exit_code' = <<0>>
                /\ UNCHANGED raised
           ELSE /\ raised' = data.raised
                /\ stdout' = Append(stdout, [text |-> "Traceback"])
                /\ exit_code' = <<1>>
                /\ UNCHANGED json_file
    /\ pc' = "exit"
    /\ UNCHANGED <<cmd, commits>>
    /\ AFrame

NextAnalyzer ==
    \/ MainNotRepository
    \/ MainStart
    \/ FetchCommits
    \/ FetchCommitsRaises
    \/ PrintReport
    \/ PrintReportRaises
    \/ ExportJson

----------------------------------------------------------------------------
(* Inputs of the commit analyzer *)

CommitEntry(h, an, ai, s) == [kind |-> "commit", H |-> h, an |-> an, ai |-> ai, s |-> s]
StatEntry(a, d, p) == [kind |-> "stat", added |-> a, deleted |-> d, path |-> p]
RawEntry(t) == [kind |-> "raw", text |-> t]

Date1 == "2024-01-02 10:00:00 +0100"
Date2 == "2024-01-03 23:30:00 +0100"

HeaderFix == CommitEntry("h1", <<"Al">>, Date1, <<"fix", ":", " ", "a">>)
HeaderPlain == CommitEntry("h2", <<"Bo">>, Date2, <<"random", " ", "text">>)
\* a subject line that holds the separator of the pretty format
HeaderPipe == CommitEntry("h3", <<"Al">>, Date2, <<"merge", " ", "a", PIPE, "b">>)

StatPy == StatEntry("2", "5", <<"f", ".py">>)
StatBig == StatEntry("10", "2", <<"g", ".py">>)
StatDel == StatEntry("0", "5", <<"f", ".py">>)
\* a binary file: git prints the placeholder for both counts
StatBinary == StatEntry("-", "-", <<"img", ".png">>)
\* a file whose name holds the separator of the pretty format three times
StatPipeName == StatEntry("-", "-", <<"a", PIPE, "b", PIPE, "c", PIPE, "d", ".png">>)
\* lines git does not print: a count that is no number, two fields only
RawNotNumber == RawEntry(<<"x", TAB, "2", TAB, "f", ".py">>)
RawTwoFields == RawEntry(<<"2", TAB, "f", ".py">>)

SeqsUpTo(S, n) == UNION {[1..k -> S] : k \in 0..n}

\* a log of git starts with a commit header
StartsWithCommit(log) == log = <<>> \/ log[1].kind = "commit"

TinyLogs == {<<>>, <<HeaderFix, StatPy>>, <<HeaderFix, StatPipeName>>}

ParseEntries ==
    {HeaderFix, HeaderPlain, HeaderPipe,
     StatPy, StatBinary, StatPipeName, RawNotNumber, RawTwoFields}
ParseLogs == {log \in SeqsUpTo(ParseEntries, MaxLines) : StartsWithCommit(log)}

\* logs of whole commits: a header and its numstat lines
CommitUnits(headers, statSeqs) == {<<h>> \o ss : h \in headers, ss \in statSeqs}
LogsOfUnits(units, n) == {Concat(us) : us \in SeqsUpTo(units, n)}

ChurnEntries == {HeaderFix, HeaderPlain, StatBig, StatDel, StatBinary}
ChurnLogs == {log \in SeqsUpTo(ChurnEntries, MaxLines) : StartsWithCommit(log)}

ScoreLogs ==
    LogsOfUnits(CommitUnits({HeaderFix, HeaderPlain}, {<<>>, <<StatBig>>}), MaxCommits)

MsgAlphabet == {"feat", "fix", "(", ")", ":", "x"}
MessageHeader(m) == CommitEntry("h1", <<"Al">>, Date1, m)
SpecExampleMessages ==
    {<<"feat", ":", " ", "a">>, <<"random", " ", "text">>,
     <<"fix", "(", "core", ")", ":", " ", "b">>, <<"Feat", ":", " ", "a">>}
MessageLogs ==
    {<<MessageHeader(m)>> : m \in SeqsUpTo(MsgAlphabet, MaxMsgLen)}
    \cup {[i \in 1..Len(ms) |-> MessageHeader(ms[i])] :
            ms \in SeqsUpTo(SpecExampleMessages, MaxCommits)}

DaysValues == {-1, 0, 1, 7, 30}

\* the palette extractor is not run
PaletteIdle ==
    /\ argv = <<>> /\ image = <<>> /\ fp_s_below = FALSE /\ fp_h_below = FALSE
    /\ ppc = "idle" /\ colors = <<>> /\ pstdout = <<>> /\ palette_html = <<>>
    /\ pexit_code = <<>>

AnalyzerStart ==
    /\ pc = "main" /\ cmd = <<>> /\ commits = <<>> /\ stdout = <<>>
    /\ json_file = <<>> /\ exit_code = <<>> /\ raised = <<>> /\ returned = <<>>
    /\ PaletteIdle

AnyArguments ==
    /\ repo_has_git \in BOOLEAN
    /\ git_fails \in BOOLEAN
    /\ days \in DaysValues
    /\ author \in {<<>>, <<"Al">>}
    /\ export \in {<<>>, <<"analysis.json">>}

DefaultArguments ==
    /\ repo_has_git = TRUE
    /\ git_fails = FALSE
    /\ days = 30
    /\ author = <<>>
    /\ export = <<"analysis.json">>

\* every command line, over logs of whole commits
Init ==
    /\ AnyArguments
    /\ gitlog \in TinyLogs \cup ScoreLogs
    /\ AnalyzerStart

\* every log of the parsing family
InitFetch ==
    /\ \/ AnyArguments /\ gitlog \in TinyLogs
       \/ DefaultArguments /\ gitlog \in ParseLogs
    /\ AnalyzerStart

\* every message of the message family
InitMessages ==
    /\ \/ AnyArguments /\ gitlog \in TinyLogs
       \/ DefaultArguments /\ gitlog \in MessageLogs
    /\ AnalyzerStart

\* every log of the churn family
InitChurn ==
    /\ \/ AnyArguments /\ gitlog \in TinyLogs
       \/ DefaultArguments /\ gitlog \in ChurnLogs
    /\ AnalyzerStart

Spec == Init /\ [][NextAnalyzer]_vars
SpecFetch == InitFetch /\ [][NextAnalyzer]_vars
SpecMessages == InitMessages /\ [][NextAnalyzer]_vars
SpecChurn == InitChurn /\ [][NextAnalyzer]_vars

----------------------------------------------------------------------------
(* A caller of the analyzer object: after fetch_commits, the public methods  *)
(* in any order, any number of times.                                        *)

CanCall == pc = "report" /\ Len(returned) < MaxCalls

CallFrame ==
    UNCHANGED <<repo_has_git, git_fails, days, author, export, gitlog, pvars,
                pc, cmd, exit_code, raised>>

Returns(op, value) == returned' = Append(returned, [op |-> op, value |-> value])

CallAnalyzeCommitFrequency ==
    /\ CanCall
    /\ Returns("analyze_commit_frequency", analyze_commit_frequency(commits))
    /\ UNCHANGED <<commits, stdout, json_file>>
    /\ CallFrame

CallAnalyzeCommitMessages ==
    /\ CanCall
    /\ Returns("analyze_commit_messages", analyze_commit_messages(commits))
    /\ UNCHANGED <<commits, stdout, json_file>>
    /\ CallFrame

\* the analysis emptying the file lists it walks
CallAnalyzeFileChangesConsumes ==
    /\ CanCall
    /\ Returns("analyze_file_changes", analyze_file_changes(commits))
    /\ commits' = [i \in 1..Len(commits) |-> [commits[i] EXCEPT !.files = <<>>]]
    /\ UNCHANGED <<stdout, json_file>>
    /\ CallFrame

CallAnalyzeFileChanges ==
    /\ CanCall
    /\ Returns("analyze_file_changes", analyze_file_changes(commits))
    /\ UNCHANGED <<commits, stdout, json_file>>
    /\ CallFrame

CallAnalyzeAuthors ==
    /\ CanCall
    /\ Returns("analyze_authors", analyze_authors(commits))
    /\ UNCHANGED <<commits, stdout, json_file>>
    /\ CallFrame

CallGetProductivityScore ==
    /\ CanCall
    /\ Returns("get_productivity_score", get_productivity_score(commits, days))
    /\ UNCHANGED <<commits, stdout, json_file>>
    /\ CallFrame

CallGenerateReport ==
    /\ CanCall
    /\ Returns("generate_report", generate_report(commits, days))
    /\ UNCHANGED <<commits, stdout, json_file>>
    /\ CallFrame

\* export_json: the dictionary dumped, its analysis_date taken from the clock
\* (datetime.now(), here the number of calls made before); nothing is written
\* when building the dictionary raises
CallExportJson ==
    /\ CanCall
    /\ LET data == export_json(commits, days, author)
       IN  IF data.raised = <<>>
           THEN LET dumped ==
                       [data EXCEPT !.metadata =
                           [days_analyzed |-> days, author_filter |-> author,
                            analysis_date |-> Len(returned)]]
                IN  /\ json_file' = <<dumped>>
                    /\ stdout' = Append(stdout, [text |-> "Analysis exported"])
                    /\ Returns("export_json", dumped)
           ELSE /\ Returns("export_json", data)
                /\ UNCHANGED <<json_file, stdout>>
    /\ UNCHANGED commits
    /\ CallFrame

NextCalls ==
    \/ MainNotRepository
    \/ MainStart
    \/ FetchCommits
    \/ FetchCommitsRaises
    \/ CallAnalyzeCommitFrequency
    \/ CallAnalyzeCommitMessages
    \/ CallAnalyzeFileChanges
    \/ CallAnalyzeAuthors
    \/ CallGetProductivityScore
    \/ CallGenerateReport
    \/ CallExportJson

CallLogs ==
    TinyLogs \cup
    {<<HeaderFix, StatBig, HeaderPlain, StatDel>>,
     <<HeaderPlain, StatBinary, StatPy, HeaderFix, StatPy>>}

InitCalls ==
    /\ repo_has_git \in BOOLEAN
    /\ git_fails \in BOOLEAN
    /\ days \in {0, 7}
    /\ author \in {<<>>, <<"Al">>}
    /\ export = <<>>
    /\ gitlog \in CallLogs
    /\ AnalyzerStart

SpecCalls == InitCalls /\ [][NextCalls]_vars

----------------------------------------------------------------------------
(* Palette extractor *)

HexDigits == <<"0", "1", "2", "3", "4", "5", "6", "7", "8", "9",
               "a", "b", "c", "d", "e", "f">>

\* '#{:02x}{:02x}{:02x}'.format(r, g, b)
rgb_to_hex(rgb) ==
    <<"#">> \o Concat([i \in 1..3 |->
                         <<HexDigits[(rgb[i] \div 16) + 1], HexDigits[(rgb[i] % 16) + 1]>>])

\* pixels[::quality]
RECURSIVE EveryNth(_, _)
EveryNth(pixels, quality) ==
    IF pixels = <<>> THEN <<>>
    ELSE <<Head(pixels)>> \o EveryNth(SubSeq(pixels, quality + 1, Len(pixels)), quality)

\* the first colours seen, without ranking them by frequency
FirstColoursSeen(pixels, num_colors, quality) ==
    LET color_counts == Counter(EveryNth(pixels, quality))
    IN  [i \in 1..Min(Max(num_colors, 0), Len(color_counts)) |-> color_counts[i].key]

\* the try block of get_dominant_colors on a readable image
get_dominant_colors(pixels, num_colors, quality) ==
    LET color_counts == Counter(EveryNth(pixels, quality))
        common == most_common(color_counts, num_colors)
    IN  [i \in 1..Len(common) |-> common[i].key]

Max3(rgb) == Max(rgb[1], Max(rgb[2], rgb[3]))
Min3(rgb) == Min(rgb[1], Min(rgb[2], rgb[3]))

\* colorsys.rgb_to_hsv(r/255, g/255, b/255), h already multiplied by 360
rgb_to_hsv(rgb) ==
    LET maxc == Max3(rgb)
        minc == Min3(rgb)
        rangec == maxc - minc
        \* six times the hue before "% 1.0", in units of 1/rangec
        sixth == IF rgb[1] = maxc THEN rgb[2] - rgb[3]
                 ELSE IF rgb[2] = maxc THEN 2 * rangec + rgb[3] - rgb[1]
                 ELSE 4 * rangec + rgb[1] - rgb[2]
    IN  IF minc = maxc
        THEN [h |-> RInt(0), s |-> RInt(0), v |-> Rat(maxc, 255)]
        ELSE [h |-> Rat(60 * (sixth % (6 * rangec)), rangec),
              s |-> Rat(rangec, maxc),
              v |-> Rat(maxc, 255)]

\* x < c on floats: as on the exact values, except that a value exactly c may
\* have been computed below it
FloatLt(x, c, below) == RLt(x, c) \/ (below /\ REq(x, c))

\* the last branch naming its own range instead of Red
ColorNameLastBranchMagenta(rgb, s_below, h_below) ==
    LET hsv == rgb_to_hsv(rgb)
        HLt(c) == FloatLt(hsv.h, RInt(c), h_below)
    IN  IF FloatLt(hsv.s, Rat(1, 10), s_below)
        THEN IF RLt(Rat(9, 10), hsv.v) THEN "White"
             ELSE IF RLt(hsv.v, Rat(1, 10)) THEN "Black"
             ELSE "Gray"
        ELSE IF HLt(15) \/ ~HLt(345) THEN "Red"
        ELSE IF HLt(45) THEN "Orange"
        ELSE IF HLt(75) THEN "Yellow"
        ELSE IF HLt(150) THEN "Green"
        ELSE IF HLt(210) THEN "Cyan"
        ELSE IF HLt(270) THEN "Blue"
        ELSE "Magenta"

get_color_name(rgb, s_below, h_below) ==
    LET hsv == rgb_to_hsv(rgb)
        h == hsv.h
        HLt(c) == FloatLt(h, RInt(c), h_below)
    IN  IF FloatLt(hsv.s, Rat(1, 10), s_below)
        THEN IF RLt(Rat(9, 10), hsv.v) THEN "White"
             ELSE IF RLt(hsv.v, Rat(1, 10)) THEN "Black"
             ELSE "Gray"
        ELSE IF HLt(15) \/ ~HLt(345) THEN "Red"
        ELSE IF HLt(45) THEN "Orange"
        ELSE IF HLt(75) THEN "Yellow"
        ELSE IF HLt(150) THEN "Green"
        ELSE IF HLt(210) THEN "Cyan"
        ELSE IF HLt(270) THEN "Blue"
        ELSE IF HLt(330) THEN "Magenta"
        ELSE "Red"

\* the swatch cards generate_html_palette writes, one per colour
generate_html_palette(cs, s_below, h_below) ==
    [i \in 1..Len(cs) |->
        [hex_code |-> rgb_to_hex(cs[i]),
         color_name |-> get_color_name(cs[i], s_below, h_below),
         number |-> i,
         rgb |-> cs[i]]]

DefaultNumColors == 5
DefaultQuality == 1

PFrame == UNCHANGED <<argv, image, fp_s_below, fp_h_below, avars>>

\* lines 247-250: no image path on the command line
PaletteUsage ==
    /\ ppc = "main"
    /\ Len(argv) < 1
    /\ pstdout' = pstdout \o <<[text |-> "Usage"], [text |-> "Example"]>>
    /\ pexit_code' = <<1>>
    /\ ppc' = "exit"
    /\ UNCHANGED <<colors, palette_html>>
    /\ PFrame

\* line 253: int(sys.argv[2]) raises, the traceback ends the run
PaletteBadCount ==
    /\ ppc = "main"
    /\ Len(argv) > 1
    /\ IntRaises(<<argv[2]>>)
    /\ pstdout' = Append(pstdout, [text |-> "Traceback"])
    /\ pexit_code' = <<1>>
    /\ ppc' = "exit"
    /\ UNCHANGED <<colors, palette_html>>
    /\ PFrame

NumColorsArg == IF Len(argv) > 1 THEN IntValue(argv[2]) ELSE DefaultNumColors

\* lines 252-257: get_dominant_colors returns the colours
PaletteExtract ==
    /\ ppc = "main"
    /\ Len(argv) >= 1
    /\ Len(argv) > 1 => ~IntRaises(<<argv[2]>>)
    /\ image # <<>>
    /\ colors' = get_dominant_colors(image[1], NumColorsArg, DefaultQuality)
    /\ pstdout' = Append(pstdout, [text |-> "Extracting dominant colors"])
    /\ ppc' = "print"
    /\ UNCHANGED <<palette_html, pexit_code>>
    /\ PFrame

\* the except branch printing the error and returning no colours
PaletteExtractFailsReturns ==
    /\ ppc = "main"
    /\ Len(argv) >= 1
    /\ Len(argv) > 1 => ~IntRaises(<<argv[2]>>)
    /\ image = <<>>
    /\ pstdout' = pstdout \o <<[text |-> "Extracting dominant colors"],
                               [text |-> "Error processing image"]>>
    /\ colors' = <<>>
    /\ ppc' = "print"
    /\ UNCHANGED <<palette_html, pexit_code>>
    /\ PFrame

\* lines 252-257, 55-57: the image cannot be processed
PaletteExtractFails ==
    /\ ppc = "main"
    /\ Len(argv) >= 1
    /\ Len(argv) > 1 => ~IntRaises(<<argv[2]>>)
    /\ image = <<>>
    /\ pstdout' = pstdout \o <<[text |-> "Extracting dominant colors"],
                               [text |-> "Error processing image"]>>
    /\ pexit_code' = <<1>>
    /\ ppc' = "exit"
    /\ UNCHANGED <<colors, palette_html>>
    /\ PFrame

\* lines 259-263: the console summary, one line per colour
PalettePrintColors ==
    /\ ppc = "print"
    /\ pstdout' = pstdout \o <<[text |-> "Dominant Colors:"]>> \o
          [i \in 1..Len(colors) |->
              [text |-> "color", rank |-> i,
               color_name |-> get_color_name(colors[i], fp_s_below, fp_h_below),
               hex_code |-> rgb_to_hex(colors[i]),
               rgb |-> colors[i]]]
    /\ ppc' = "html"
    /\ UNCHANGED <<colors, palette_html, pexit_code>>
    /\ PFrame

\* lines 265-268: palette.html is written
PaletteWriteHtml ==
    /\ ppc = "html"
    /\ palette_html' = <<generate_html_palette(colors, fp_s_below, fp_h_below)>>
    /\ pstdout' = pstdout \o <<[text |-> "Palette saved"], [text |-> "Open in your browser"]>>
    /\ pexit_code' = <<0>>
    /\ ppc' = "exit"
    /\ UNCHANGED colors
    /\ PFrame

NextPalette ==
    \/ PaletteUsage
    \/ PaletteBadCount
    \/ PaletteExtract
    \/ PaletteExtractFails
    \/ PalettePrintColors
    \/ PaletteWriteHtml

\* the commit analyzer is not run
AnalyzerIdle ==
    /\ repo_has_git = FALSE /\ git_fails = FALSE /\ days = 30 /\ author = <<>>
    /\ export = <<>> /\ gitlog = <<>> /\ pc = "idle" /\ cmd = <<>> /\ commits = <<>>
    /\ stdout = <<>> /\ json_file = <<>> /\ exit_code = <<>> /\ raised = <<>>
    /\ returned = <<>>

PaletteStart ==
    /\ ppc = "main" /\ colors = <<>> /\ pstdout = <<>> /\ palette_html = <<>>
    /\ pexit_code = <<>>
    /\ AnalyzerIdle

\* channel values: the low ones, and those around the thresholds of value
Channels == 0..MaxChannel \cup {25, 26, 128, 229, 230, 255}
Colours == Channels \X Channels \X Channels

SampleColours == {<<255, 0, 0>>, <<0, 0, 255>>, <<10, 10, 10>>}
PixelSeqs == UNION {[1..k -> SampleColours] : k \in 1..MaxPixels}
CountArgs == {"0", "1", "2", "3", "many"}
ArgvValues == {<<>>, <<"photo.jpg">>} \cup {<<"photo.jpg", n>> : n \in CountArgs}

InitPalette ==
    /\ \/ /\ argv \in ArgvValues
          /\ image \in {<<>>} \cup {<<p>> : p \in PixelSeqs}
          /\ fp_s_below = FALSE /\ fp_h_below = FALSE
       \/ /\ argv = <<"photo.jpg">>
          /\ image \in {<< <<c>> >> : c \in Colours}
          /\ fp_s_below \in BOOLEAN /\ fp_h_below \in BOOLEAN
    /\ PaletteStart

SpecPalette == InitPalette /\ [][NextPalette]_vars

----------------------------------------------------------------------------
(* Properties of the commit analyzer *)

IsReport(line) == "raised" \in DOMAIN line
ReportPrinted == \E i \in 1..Len(stdout) : IsReport(stdout[i])
PrintedReport == stdout[CHOOSE i \in 1..Len(stdout) : IsReport(stdout[i])]
ErrorPrinted ==
    \E i \in 1..Len(stdout) :
        stdout[i].text \in {"Error: not a Git repository", "Error running git command"}

\* fetch_commits has called git
GitCalled == cmd # <<>>

\* C1: whenever the external call fails (the path is no repository, or git log
\* returns an error), the run ends at once with a printed error and exit status
\* 1: no report is printed and no export file is written after the failure.
C1_FailedCallAborts ==
    ((~repo_has_git /\ pc # "main") \/ (git_fails /\ GitCalled)) =>
        /\ pc = "exit"
        /\ exit_code = <<1>>
        /\ ErrorPrinted
        /\ ~ReportPrinted
        /\ json_file = <<>>

\* the entries of the log that are commit headers, in order
HeaderPositions(log) == {i \in 1..Len(log) : log[i].kind = "commit"}
RECURSIVE Ascending(_)
Ascending(S) ==
    IF S = {} THEN <<>>
    ELSE LET m == CHOOSE m \in S : \A x \in S : m <= x
         IN  <<m>> \o Ascending(S \ {m})
\* the lines after the header at i, up to the next header
LinesOf(log, i) ==
    LET later == {j \in HeaderPositions(log) : j > i}
        stop == IF later = {} THEN Len(log) + 1
                ELSE CHOOSE m \in later : \A x \in later : m <= x
    IN  SubSeq(log, i + 1, stop - 1)
StatsOf(log, i) == SelectSeq(LinesOf(log, i), LAMBDA e : e.kind = "stat")

\* C2: for every log, fetch_commits produces exactly one Commit record per commit
\* of the log, in the log's order, and every file-stat line is attributed to the
\* commit whose header most recently precedes it, whatever text ('|' included)
\* the author, the subject and the file names hold.
C2_OneCommitPerLogCommit ==
    GitCalled /\ ~git_fails =>
        LET heads == Ascending(HeaderPositions(gitlog))
        IN  /\ raised # <<"ValueError">>
            /\ Len(commits) = Len(heads)
            /\ \A k \in 1..Len(heads) :
                 LET e == gitlog[heads[k]]
                     stats == StatsOf(gitlog, heads[k])
                 IN  /\ commits[k].hash = <<e.H>>
                     /\ commits[k].author = e.an
                     /\ commits[k].message = e.s
                     /\ [j \in 1..Len(commits[k].files) |-> commits[k].files[j].name]
                          = [j \in 1..Len(stats) |-> stats[j].path]

\* C3 as stated: on an empty commit set generate_report returns the no-commits
\* message, the score is 0, and every aggregate export_json collects is the
\* "no commits found" message instead of a computation on the empty set.
IsNoCommitsMessage(x) == "text" \in DOMAIN x /\ x.text = NoCommitsMessage
C3_EmptySetShortCircuits ==
    (ReportPrinted /\ commits = <<>> /\ json_file # <<>>) =>
        /\ IsNoCommitsMessage(PrintedReport)
        /\ json_file[1].productivity_score = RInt(0)
        /\ IsNoCommitsMessage(json_file[1].frequency)
        /\ IsNoCommitsMessage(json_file[1].messages)
        /\ IsNoCommitsMessage(json_file[1].files)
        /\ IsNoCommitsMessage(json_file[1].authors)

\* C3, amended: on an empty commit set the report is the no-commits message and
\* the run ends without an exception and with status 0, for every value of
\* --days; the score is 0; the export, when asked for, is written and holds the
\* aggregates computed on the empty set: zero counts, zero averages, empty maps.
C3_EmptySetIsSafe ==
    (ReportPrinted /\ commits = <<>>) =>
        /\ IsNoCommitsMessage(PrintedReport)
        /\ raised = <<>>
        /\ pc = "exit" =>
             /\ exit_code = <<0>>
             /\ export # <<>> => json_file # <<>>
        /\ json_file # <<>> =>
             LET d == json_file[1]
             IN  /\ d.productivity_score = RInt(0)
                 /\ d.frequency = [by_hour |-> <<>>, by_day |-> <<>>, by_date |-> <<>>]
                 /\ d.messages.total_commits = 0
                 /\ d.messages.conventional_commits = 0
                 /\ d.messages.conventional_percentage = RInt(0)
                 /\ d.messages.avg_message_length = RInt(0)
                 /\ \A t \in CommitTypes : d.messages.commit_types[t] = 0
                 /\ d.files.total_additions = 0 /\ d.files.total_deletions = 0
                 /\ d.files.net_lines = 0
                 /\ d.files.avg_additions_per_commit = RInt(0)
                 /\ d.files.avg_deletions_per_commit = RInt(0)
                 /\ d.files.most_changed_files = <<>>
                 /\ d.authors.total_authors = 0

\* an export of an empty commit set with --days 0
C3_Witness ==
    /\ ReportPrinted /\ commits = <<>> /\ json_file # <<>> /\ days = 0 /\ pc = "exit"

\* the score of the claim, before rounding
ClaimedScore(cs, d) ==
    LET conv == Cardinality({i \in 1..Len(cs) : ReMatch(cs[i].message)})
        adds == SumSeq([i \in 1..Len(cs) |-> cs[i].additions])
    IN  RAdd(RAdd(RMin(Rat(Len(cs) * 10, d), RInt(40)),
                  RMul(Rat(conv * 100, Len(cs)), Rat(3, 10))),
             RMin(Rat(adds, Len(cs) * 10), RInt(30)))

\* |a - b| <= 1/200: equal once rounded to two decimals
WithinRounding(a, b) ==
    LET diff == RAdd(a, [num |-> -b.num, den |-> b.den])
    IN  RLe(diff, Rat(1, 200)) /\ RLe(Rat(-1, 200), diff)

ScoreAsClaimed(score) ==
    /\ RLe(RInt(0), score) /\ RLe(score, RInt(100))
    /\ IF commits = <<>> THEN score = RInt(0)
       ELSE days # 0 /\ WithinRounding(score, ClaimedScore(commits, days))

\* C4: for every commit set and every integer --days, get_productivity_score
\* returns without error a value in 0..100 equal to min(commits/days*10, 40) +
\* conventional_percentage*0.3 + min(avg_additions_per_commit/10, 30), and 0 on
\* an empty commit set.
C4_ScoreInRange ==
    /\ raised # <<"ZeroDivisionError">>
    /\ (ReportPrinted /\ "productivity" \in DOMAIN PrintedReport) =>
          ScoreAsClaimed(PrintedReport.productivity)
    /\ json_file # <<>> => ScoreAsClaimed(json_file[1].productivity_score)

\* The conventional form of the claim: a type tag, then a colon, or a type tag,
\* "(", a scope of one or more characters, ")" and a colon.
HasPrefix(msg, p) == Len(msg) >= Len(p) /\ SubSeq(msg, 1, Len(p)) = p
ConventionalWithType(msg, t) ==
    \/ HasPrefix(msg, <<t, ":">>)
    \/ \E n \in 1..(Len(msg) - 2) :
          HasPrefix(msg, <<t, "(">> \o SubSeq(msg, 3, 2 + n) \o <<")", ":">>)
ConventionalSet(cs, t) == {i \in 1..Len(cs) : ConventionalWithType(cs[i].message, t)}

RECURSIVE SumOver(_, _)
SumOver(f, S) ==
    IF S = {} THEN 0 ELSE LET x == CHOOSE x \in S : TRUE IN f[x] + SumOver(f, S \ {x})

\* C5: analyze_commit_messages counts a message as conventional exactly when it
\* starts with a type tag, an optional parenthesized scope and a colon;
\* commit_types[t] counts those of tag t, the commit_types sum to
\* conventional_commits, and conventional_percentage is
\* conventional_commits / total_commits * 100.
C5_ConventionalCounts ==
    json_file # <<>> =>
        LET m == json_file[1].messages
            conv == UNION {ConventionalSet(commits, t) : t \in CommitTypes}
        IN  /\ m.total_commits = Len(commits)
            /\ m.conventional_commits = Cardinality(conv)
            /\ \A t \in CommitTypes :
                  m.commit_types[t] = Cardinality(ConventionalSet(commits, t))
            /\ SumOver(m.commit_types, CommitTypes) = m.conventional_commits
            /\ commits # <<>> =>
                  REq(m.conventional_percentage,
                      Rat(100 * m.conventional_commits, m.total_commits))
            /\ commits = <<>> => m.conventional_percentage = RInt(0)

\* the example of the specification: "feat: a", "random text", "fix(core): b"
C5_Witness ==
    /\ json_file # <<>>
    /\ [i \in 1..Len(commits) |-> commits[i].message] =
          << <<"feat", ":", " ", "a">>, <<"random", " ", "text">>,
             <<"fix", "(", "core", ")", ":", " ", "b">> >>
    /\ json_file[1].messages.conventional_commits = 2
    /\ json_file[1].messages.conventional_percentage = Rat(200, 3)
    /\ json_file[1].messages.commit_types["feat"] = 1
    /\ json_file[1].messages.commit_types["fix"] = 1
    /\ json_file[1].messages.commit_types["docs"] = 0

\* the lines added and deleted that the log states, the placeholder as 0
Stated(tok) == IF tok = "-" THEN 0 ELSE IntValue(tok)
LogStats(log) == SelectSeq(log, LAMBDA e : e.kind = "stat")
LogAdded(log) == SumSeq([i \in 1..Len(LogStats(log)) |-> Stated(LogStats(log)[i].added)])
LogDeleted(log) ==
    SumSeq([i \in 1..Len(LogStats(log)) |-> Stated(LogStats(log)[i].deleted)])

\* C6: analyze_file_changes returns total_additions and total_deletions equal to
\* the sums over the commits, net_lines = total_additions - total_deletions, and
\* the averages equal to the totals divided by the number of commits, 0 on an
\* empty commit set.
C6_ChurnTotals ==
    (json_file # <<>> /\ gitlog \in ChurnLogs) =>
        LET f == json_file[1].files
            n == Cardinality(HeaderPositions(gitlog))
        IN  /\ Len(commits) = n
            /\ f.total_additions = SumSeq([i \in 1..n |-> commits[i].additions])
            /\ f.total_deletions = SumSeq([i \in 1..n |-> commits[i].deletions])
            /\ f.total_additions = LogAdded(gitlog)
            /\ f.total_deletions = LogDeleted(gitlog)
            /\ f.net_lines = LogAdded(gitlog) - LogDeleted(gitlog)
            /\ n > 0 => /\ REq(f.avg_additions_per_commit, Rat(LogAdded(gitlog), n))
                        /\ REq(f.avg_deletions_per_commit, Rat(LogDeleted(gitlog), n))
            /\ n = 0 => /\ f.avg_additions_per_commit = RInt(0)
                        /\ f.avg_deletions_per_commit = RInt(0)

\* the example of the specification: commits (10,2) and (0,5)
C6_Witness ==
    /\ json_file # <<>>
    /\ gitlog = <<HeaderFix, StatBig, HeaderPlain, StatDel>>
    /\ json_file[1].files.total_additions = 10
    /\ json_file[1].files.total_deletions = 7
    /\ json_file[1].files.net_lines = 3
    /\ REq(json_file[1].files.avg_additions_per_commit, RInt(5))

\* a line of the log that is a three-field stat line of numbers or placeholders
WellFormedStat(e) ==
    /\ e.kind = "stat"
    /\ e.added \in IntLiterals \cup {"-"}
    /\ e.deleted \in IntLiterals \cup {"-"}
PipeFreeHeaders(log) ==
    \A i \in HeaderPositions(log) :
        \A j \in 1..Len(log[i].s) : log[i].s[j] # PIPE

\* C10: a three-field stat line with the placeholder '-' adds 0 to the commit's
\* additions and deletions and its file is appended to the commit's file list; a
\* malformed line is skipped without error and changes nothing; so each commit's
\* additions and deletions are the sums over its file list.
C10_StatLines ==
    (GitCalled /\ ~git_fails /\ PipeFreeHeaders(gitlog)) =>
        LET heads == Ascending(HeaderPositions(gitlog))
        IN  /\ raised # <<"ValueError">>
            /\ Len(commits) = Len(heads)
            /\ \A k \in 1..Len(commits) :
                 LET good == SelectSeq(LinesOf(gitlog, heads[k]), WellFormedStat)
                     c == commits[k]
                 IN  /\ c.files = [j \in 1..Len(good) |->
                                      [name |-> good[j].path,
                                       additions |-> Stated(good[j].added),
                                       deletions |-> Stated(good[j].deleted)]]
                     /\ c.additions = SumSeq([j \in 1..Len(c.files) |-> c.files[j].additions])
                     /\ c.deletions = SumSeq([j \in 1..Len(c.files) |-> c.files[j].deletions])

\* the commits of the set whose file list holds the path
CommitsTouching(cs, path) ==
    {i \in 1..Len(cs) : \E j \in 1..Len(cs[i].files) : cs[i].files[j].name = path}
PathsOf(cs) ==
    UNION {{cs[i].files[j].name : j \in 1..Len(cs[i].files)} : i \in 1..Len(cs)}

\* C11: most_changed_files holds at most 10 file paths, each mapped to the number
\* of distinct commits that touch the path, and they are the paths with the
\* highest such counts; a path listed more than once inside one commit counts
\* that commit once.
C11_MostChangedFiles ==
    json_file # <<>> =>
        LET m == json_file[1].files.most_changed_files
            listed == {m[i].key : i \in 1..Len(m)}
        IN  /\ Len(m) <= 10
            /\ Cardinality(listed) = Len(m)
            /\ listed \subseteq PathsOf(commits)
            /\ \A i \in 1..Len(m) :
                  m[i].count = Cardinality(CommitsTouching(commits, m[i].key))
            /\ \A path \in PathsOf(commits) \ listed :
                  \A i \in 1..Len(m) :
                     Cardinality(CommitsTouching(commits, path)) <= m[i].count

\* the calls made so far whose method is op
CallsOf(op) == {i \in 1..Len(returned) : returned[i].op = op}

\* what export_json dumped without the time of the export
ExportAggregates(v) ==
    IF v.raised # <<>> THEN <<v.raised>>
    ELSE <<v.frequency, v.messages, v.files, v.authors, v.productivity_score>>

SameAggregates(op, v, w) ==
    IF op = "export_json" THEN ExportAggregates(v) = ExportAggregates(w) ELSE v = w

\* every value the report is formatted from stands in the dump d under its key
ReportInExport(rep, d) ==
    /\ rep.days = d.metadata.days_analyzed
    /\ rep.total_commits = d.messages.total_commits
    /\ rep.productivity = d.productivity_score
    /\ rep.total_authors = d.authors.total_authors
    /\ Len(rep.top_authors) = Min(5, Len(d.authors.author_commits))
    /\ \A i \in 1..Len(rep.top_authors) :
          /\ rep.top_authors[i].author = d.authors.author_commits[i].key
          /\ rep.top_authors[i].count = d.authors.author_commits[i].count
          /\ \E k \in 1..Len(d.authors.author_stats) :
                /\ d.authors.author_stats[k].author = rep.top_authors[i].author
                /\ d.authors.author_stats[k].commits = rep.top_authors[i].count
                /\ d.authors.author_stats[k].additions = rep.top_authors[i].additions
                /\ d.authors.author_stats[k].deletions = rep.top_authors[i].deletions
    /\ \E k \in 1..Len(d.frequency.by_hour) :
          d.frequency.by_hour[k] = rep.most_productive_hour
    /\ \E k \in 1..Len(d.frequency.by_day) :
          d.frequency.by_day[k] = rep.most_productive_day
    /\ rep.avg_message_length = d.messages.avg_message_length
    /\ rep.conventional_commits = d.messages.conventional_commits
    /\ rep.conventional_percentage = d.messages.conventional_percentage
    /\ \A t \in CommitTypes :
          IF t \in DOMAIN rep.commit_types
          THEN rep.commit_types[t] = d.messages.commit_types[t]
          ELSE d.messages.commit_types[t] = 0
    /\ rep.total_additions = d.files.total_additions
    /\ rep.total_deletions = d.files.total_deletions
    /\ rep.net_lines = d.files.net_lines
    /\ rep.avg_additions_per_commit = d.files.avg_additions_per_commit
    /\ rep.avg_deletions_per_commit = d.files.avg_deletions_per_commit
    /\ rep.top_file_types = FirstN(d.files.file_extensions, 5)
    /\ rep.most_changed_files = FirstN(d.files.most_changed_files, 5)

HasAggregates(rep) == rep.raised = <<>> /\ rep.text # NoCommitsMessage

\* C12: after fetch_commits, whatever analyses, scores, reports and exports are
\* called and in whatever order, the commit set stays the one fetch_commits
\* built, two calls of the same method return the same aggregates, and every
\* report's values are the ones the exported JSON holds.
C12_CallsLeaveCommits ==
    pc = "report" =>
        /\ commits = fetch_commits(git_fails, gitlog).commits
        /\ \A i, j \in 1..Len(returned) :
              returned[i].op = returned[j].op =>
                 SameAggregates(returned[i].op, returned[i].value, returned[j].value)
        /\ \A i \in CallsOf("generate_report"), j \in CallsOf("export_json") :
              HasAggregates(returned[i].value) =>
                 /\ returned[j].value.raised = <<>>
                 /\ ReportInExport(returned[i].value, returned[j].value)
        /\ json_file # <<>> =>
              \A i \in CallsOf("generate_report") :
                 HasAggregates(returned[i].value) =>
                    ReportInExport(returned[i].value, json_file[1])

\* an analysis of the files, then a report and an export of a set whose commits
\* have files, and the analysis once more
C12_Witness ==
    /\ pc = "report"
    /\ Len(commits) >= 2
    /\ \E k \in 1..Len(commits) : commits[k].files # <<>>
    /\ \E a, b, c \in 1..Len(returned) :
          /\ a < b /\ b < c
          /\ returned[a].op = "analyze_file_changes"
          /\ returned[b].op \in {"generate_report", "export_json"}
          /\ returned[c].op = "analyze_file_changes"
    /\ \E i \in CallsOf("generate_report") : HasAggregates(returned[i].value)

----------------------------------------------------------------------------
(* Properties of the palette extractor *)

ColoursReturned == ppc \in {"print", "html"} \/ palette_html # <<>>
Sampled == EveryNth(image[1], DefaultQuality)
Frequency(c) == CountOf(Sampled, c)
FirstIndex(c) == IndexOf(Sampled, c)

\* C7: get_dominant_colors returns at most num_colors colours, all distinct,
\* all among the sampled pixels, each an RGB triple of 0..255, in order of
\* non-increasing frequency, equally frequent ones in order of first occurrence;
\* no colour left out is more frequent than one returned.
C7_DominantColours ==
    ColoursReturned =>
        /\ Len(colors) <= NumColorsArg
        /\ \A i, j \in 1..Len(colors) : i # j => colors[i] # colors[j]
        /\ \A i \in 1..Len(colors) :
              /\ \E k \in 1..Len(Sampled) : Sampled[k] = colors[i]
              /\ Len(colors[i]) = 3
              /\ \A ch \in 1..3 : colors[i][ch] \in 0..255
        /\ \A i, j \in 1..Len(colors) :
              i < j =>
                /\ Frequency(colors[i]) >= Frequency(colors[j])
                /\ Frequency(colors[i]) = Frequency(colors[j]) =>
                      FirstIndex(colors[i]) < FirstIndex(colors[j])
        /\ \A k \in 1..Len(Sampled) :
              (\A i \in 1..Len(colors) : colors[i] # Sampled[k]) =>
                 \A i \in 1..Len(colors) : Frequency(Sampled[k]) <= Frequency(colors[i])

\* two equally frequent colours returned in order of occurrence, a rarer one left out
C7_Witness ==
    /\ ColoursReturned
    /\ Len(colors) = 2
    /\ Frequency(colors[1]) = Frequency(colors[2])
    /\ \E k \in 1..Len(Sampled) : Sampled[k] # colors[1] /\ Sampled[k] # colors[2]

ColourNames ==
    {"White", "Black", "Gray", "Red", "Orange", "Yellow", "Green", "Cyan", "Blue",
     "Magenta"}

\* the ranges of the claim: name, first hue, hue after the last
DocumentedRanges ==
    {<<"Red", 345, 360>>, <<"Red", 0, 15>>, <<"Orange", 15, 45>>,
     <<"Yellow", 45, 75>>, <<"Green", 75, 150>>, <<"Cyan", 150, 210>>,
     <<"Blue", 210, 270>>, <<"Magenta", 270, 330>>}
\* the ranges with Red running from 330
AmendedRanges == (DocumentedRanges \ {<<"Red", 345, 360>>}) \cup {<<"Red", 330, 360>>}

\* the hue, as computed, lies in [lo, hi); it is never below 0 nor 360 or more
HueIn(rgb, lo, hi) ==
    /\ lo = 0 \/ ~FloatLt(rgb_to_hsv(rgb).h, RInt(lo), fp_h_below)
    /\ hi = 360 \/ FloatLt(rgb_to_hsv(rgb).h, RInt(hi), fp_h_below)

NamedByRanges(rgb, name, ranges) ==
    LET hsv == rgb_to_hsv(rgb)
    IN  /\ name \in ColourNames
        /\ RLe(RInt(0), hsv.h) /\ RLt(hsv.h, RInt(360))
        /\ IF FloatLt(hsv.s, Rat(1, 10), fp_s_below)
           THEN name = (IF RLt(Rat(9, 10), hsv.v) THEN "White"
                        ELSE IF RLt(hsv.v, Rat(1, 10)) THEN "Black" ELSE "Gray")
           ELSE /\ Cardinality({r \in ranges : HueIn(rgb, r[2], r[3])}) = 1
                /\ \E r \in ranges : HueIn(rgb, r[2], r[3]) /\ name = r[1]

NamedLines == {i \in 1..Len(pstdout) : "color_name" \in DOMAIN pstdout[i]}

\* C8 as stated: every RGB triple maps to one of the ten names; saturation below
\* 0.1 gives White, Black or Gray by value, otherwise the hue selects the name by
\* the ranges [345,360) and [0,15) Red, [15,45) Orange, [45,75) Yellow, [75,150)
\* Green, [150,210) Cyan, [210,270) Blue, [270,330) Magenta, which cover every hue.
C8_DocumentedRanges ==
    \A i \in NamedLines :
        NamedByRanges(pstdout[i].rgb, pstdout[i].color_name, DocumentedRanges)

\* C8, amended: the same, with Red for the hues of [330,360) and [0,15); hue and
\* saturation are the values the function computes.
C8_AmendedRanges ==
    \A i \in NamedLines :
        NamedByRanges(pstdout[i].rgb, pstdout[i].color_name, AmendedRanges)

\* a colour of a hue in [330,345) has been named
C8_Witness ==
    \E i \in NamedLines :
        /\ HueIn(pstdout[i].rgb, 330, 345)
        /\ ~FloatLt(rgb_to_hsv(pstdout[i].rgb).s, Rat(1, 10), fp_s_below)
        /\ pstdout[i].color_name = "Red"

MessagePrinted ==
    \E i \in 1..Len(pstdout) :
        pstdout[i].text \in {"Usage", "Error processing image", "Traceback"}

\* C9: when the image argument is missing or the image cannot be read, the run
\* ends with a printed message and exit status 1 and palette.html is never
\* written: it is written only after get_dominant_colors has returned.
C9_NoHtmlAfterFailure ==
    /\ (Len(argv) < 1 \/ image = <<>>) =>
          /\ palette_html = <<>>
          /\ ppc \in {"main", "exit"}
          /\ ppc = "exit" => pexit_code = <<1>> /\ MessagePrinted
    /\ palette_html # <<>> =>
          /\ Len(argv) >= 1 /\ image # <<>>
          /\ colors = get_dominant_colors(image[1], NumColorsArg, DefaultQuality)
          /\ ~MessagePrinted

\* the run on an unreadable image has ended
C9_Witness ==
    /\ Len(argv) >= 1 /\ image = <<>> /\ ppc = "exit" /\ pexit_code = <<1>>
    /\ \E i \in 1..Len(pstdout) : pstdout[i].text = "Error processing image"

====
